---- MODULE Spec2Model ----
(***************************************************************************)
(* Model of .github/acm/acm.py as run by main(): the promotion queries of  *)
(* class Get (zones, first_env, next_env, prev_env), Validate.placements,  *)
(* and the generate command of class Generate with its cached getters      *)
(* _get_params and _get_values and its Jinja2 merge filter.  The filter    *)
(* works in place on Python dict objects, so the mappings of a run are     *)
(* modelled over a heap of objects.                                        *)
(***************************************************************************)
EXTENDS Integers, Sequences, FiniteSets, TLC

\* ------------------------------------------------------------------------
\* Bounds of the model
\* ------------------------------------------------------------------------
\* longest promotion list of steps that carry no placements key
MaxSteps == 4
\* longest promotion list of steps that may carry placements
MaxZoneSteps == 2
\* most placements in one promotion.yaml, summed over its steps
MaxPlacements == 3
\* most calls of the merge filter in one run
MaxMerges == 2
\* longest promotion list given to validate placements
MaxValidateSteps == 2
\* most placements in one promotion.yaml given to validate placements
MaxValidatePlacements == 2

\* ------------------------------------------------------------------------
\* promotion.yaml as parsed by yaml.safe_load
\* ------------------------------------------------------------------------
Envs == {"A", "B", "C"}
ZoneEnvs == {"A", "B"}
Priorities == {0, 1}

\* A placement {name, priority?}: a missing priority key is a false
\* hasPriority; the i-th placement of a step is called z<i>.
ZoneName(i) == "z" \o ToString(i)

PriorityChoices ==
    {[hasPriority |-> FALSE, priority |-> 0]}
        \cup {[hasPriority |-> TRUE, priority |-> q] : q \in Priorities}

Placement(i, c) ==
    [name |-> ZoneName(i), hasPriority |-> c.hasPriority, priority |-> c.priority]

\* A promotion item {env?, placements?}: a missing key is a false has* flag.
Step(hasEnv, e, hasPlacements, pl) ==
    [hasEnv |-> hasEnv, env |-> e, hasPlacements |-> hasPlacements, placements |-> pl]

StepNames == {<<TRUE, e>> : e \in Envs} \cup {<<FALSE, "">>}
ZoneStepNames == {<<TRUE, e>> : e \in ZoneEnvs} \cup {<<FALSE, "">>}

\* f[1] + ... + f[n]
RECURSIVE Sum(_, _)
Sum(f, n) == IF n = 0 THEN 0 ELSE f[n] + Sum(f, n - 1)

\* the promotion list of steps without a placements key named names[i]
PlainPromotion(names) ==
    [i \in DOMAIN names |-> Step(names[i][1], names[i][2], FALSE, <<>>)]

\* the promotion list whose i-th step is named names[i], has a placements key
\* iff has[i], and lists cnt[i] placements; prio gives the priorities of all
\* the placements of the file in the order they are written
ZonePromotion(names, has, cnt, prio) ==
    [i \in DOMAIN names |->
        Step(names[i][1], names[i][2], has[i],
             [j \in 1..cnt[i] |-> Placement(j, prio[Sum(cnt, i - 1) + j])])]

\* ------------------------------------------------------------------------
\* Outcome of a command: the exception that reached main() ("" when none)
\* and the lines printed on stdout, each line a list of names.
\* ------------------------------------------------------------------------
NoError == ""
EmptyPromotion == "EmptyPromotion"
MissingEnvironmentName == "MissingEnvironmentName"
EnvironmentNotFound == "EnvironmentNotFound"
KeyError == "KeyError"

Outcome(e, o) == [err |-> e, out |-> o]

\* ------------------------------------------------------------------------
\* Get.zones
\* ------------------------------------------------------------------------
\* index of a priority among the keys of the dict data, 0 when it is no key
KeyIndex(data, priority) ==
    IF \E j \in 1..Len(data) : data[j].priority = priority
    THEN CHOOSE j \in 1..Len(data) : data[j].priority = priority
    ELSE 0

\* AddZone that takes 1 for the priority of a placement without one
AddZoneDefaultOne(data, info) ==
    LET priority == IF info.hasPriority THEN info.priority ELSE 1
        j == KeyIndex(data, priority)
    IN  IF j = 0
        THEN Append(data, [priority |-> priority, zones |-> <<info.name>>])
        ELSE [data EXCEPT ![j].zones = Append(@, info.name)]

\* one round of the inner loop: data[priority].append(info["name"]); data is a
\* dict, which keeps its keys in the order of their first insertion
AddZone(data, info) ==
    LET priority == IF info.hasPriority THEN info.priority ELSE 0
        j == KeyIndex(data, priority)
    IN  IF j = 0
        THEN Append(data, [priority |-> priority, zones |-> <<info.name>>])
        ELSE [data EXCEPT ![j].zones = Append(@, info.name)]

RECURSIVE GroupPlacements(_, _, _)
GroupPlacements(data, placements, i) ==
    IF i > Len(placements) THEN data
    ELSE GroupPlacements(AddZone(data, placements[i]), placements, i + 1)

\* for zones in data.values(): print(",".join(zones))
PrintZones(data) == [j \in 1..Len(data) |-> data[j].zones]

\* the loop over the promotion from step i on; found is set by the inner loop
\* only, so a step without any placement leaves it False
RECURSIVE ZonesScan(_, _, _, _)
\* ZonesScan without the else branch of the for loop
ZonesScanNoElse(promo, e, i, data) ==
    IF i > Len(promo) THEN Outcome(NoError, PrintZones(data))
    ELSE LET p == promo[i]
             match == p.hasEnv /\ p.env = e /\ p.hasPlacements
             data2 == IF match THEN GroupPlacements(data, p.placements, 1) ELSE data
             found == match /\ Len(p.placements) > 0
         IN  IF found THEN Outcome(NoError, PrintZones(data2))
             ELSE ZonesScan(promo, e, i + 1, data2)

ZonesScan(promo, e, i, data) ==
    IF i > Len(promo) THEN Outcome(EnvironmentNotFound, <<>>)
    ELSE LET p == promo[i]
             match == p.hasEnv /\ p.env = e /\ p.hasPlacements
             data2 == IF match THEN GroupPlacements(data, p.placements, 1) ELSE data
             found == match /\ Len(p.placements) > 0
         IN  IF found THEN Outcome(NoError, PrintZones(data2))
             ELSE ZonesScan(promo, e, i + 1, data2)

zones(promo, e) == ZonesScan(promo, e, 1, <<>>)

\* ------------------------------------------------------------------------
\* Get.first_env
\* ------------------------------------------------------------------------
\* first_env without the check of the length
first_envNoLengthCheck(promo) ==
    IF Len(promo) = 0 THEN Outcome("IndexError", <<>>)
    ELSE IF ~promo[1].hasEnv THEN Outcome(MissingEnvironmentName, <<>>)
    ELSE Outcome(NoError, << <<promo[1].env>> >>)

first_env(promo) ==
    IF Len(promo) = 0 THEN Outcome(EmptyPromotion, <<>>)
    ELSE IF ~promo[1].hasEnv THEN Outcome(MissingEnvironmentName, <<>>)
    ELSE Outcome(NoError, << <<promo[1].env>> >>)

\* ------------------------------------------------------------------------
\* Get.next_env
\* ------------------------------------------------------------------------
RECURSIVE NextEnvScan(_, _, _, _)
\* NextEnvScan that prints the matching step instead of the one after it
NextEnvScanPrintsMatch(promo, e, i, found) ==
    IF i > Len(promo)
    THEN IF found THEN Outcome(NoError, <<>>) ELSE Outcome(EnvironmentNotFound, <<>>)
    ELSE LET p == promo[i]
         IN  IF p.hasEnv /\ p.env = e THEN Outcome(NoError, << <<p.env>> >>)
             ELSE NextEnvScan(promo, e, i + 1, FALSE)

\* NextEnvScan whose else branch raises whether or not found is set
NextEnvScanElseRaises(promo, e, i, found) ==
    IF i > Len(promo) THEN Outcome(EnvironmentNotFound, <<>>)
    ELSE LET p == promo[i]
         IN  IF found
             THEN IF p.hasEnv THEN Outcome(NoError, << <<p.env>> >>)
                  ELSE Outcome(KeyError, <<>>)
             ELSE NextEnvScan(promo, e, i + 1, p.hasEnv /\ p.env = e)

NextEnvScan(promo, e, i, found) ==
    IF i > Len(promo)
    THEN IF found THEN Outcome(NoError, <<>>) ELSE Outcome(EnvironmentNotFound, <<>>)
    ELSE LET p == promo[i]
         IN  IF found
             THEN IF p.hasEnv THEN Outcome(NoError, << <<p.env>> >>)
                  ELSE Outcome(KeyError, <<>>)
             ELSE NextEnvScan(promo, e, i + 1, p.hasEnv /\ p.env = e)

next_env(promo, e) == NextEnvScan(promo, e, 1, FALSE)

\* ------------------------------------------------------------------------
\* Get.prev_env
\* ------------------------------------------------------------------------
RECURSIVE PrevEnvScan(_, _, _, _)
\* PrevEnvScan that sets prev once and never updates it
PrevEnvScanStalePrev(promo, e, i, prev) ==
    IF i > Len(promo) THEN Outcome(EnvironmentNotFound, <<>>)
    ELSE LET p == promo[i]
         IN  IF p.hasEnv /\ p.env = e
             THEN Outcome(NoError, IF prev # "" THEN << <<prev>> >> ELSE <<>>)
             ELSE IF p.hasEnv
             THEN PrevEnvScan(promo, e, i + 1, IF prev = "" THEN p.env ELSE prev)
             ELSE Outcome(KeyError, <<>>)

PrevEnvScan(promo, e, i, prev) ==
    IF i > Len(promo) THEN Outcome(EnvironmentNotFound, <<>>)
    ELSE LET p == promo[i]
         IN  IF p.hasEnv /\ p.env = e
             THEN Outcome(NoError, IF prev # "" THEN << <<prev>> >> ELSE <<>>)
             ELSE IF p.hasEnv THEN PrevEnvScan(promo, e, i + 1, p.env)
             ELSE Outcome(KeyError, <<>>)

prev_env(promo, e) == PrevEnvScan(promo, e, 1, "")

\* ------------------------------------------------------------------------
\* Python values of the merge filter.  A scalar is [val |-> n]; a dict is an
\* object of the heap and is held by reference, [ref |-> address]; the heap
\* maps an address to the dict stored there, a function from its keys to
\* the values they hold.
\* ------------------------------------------------------------------------
Keys == {"a", "b"}
\* the order in which "for k in dict2" visits the keys a dict holds
KeyOrder == <<"a", "b">>
Scalars == {[val |-> 1], [val |-> 2]}

\* isinstance(v, dict)
IsDict(v) == "ref" \in DOMAIN v

\* YAML documents as trees: a mapping is a function from some of the keys
PartialMaps(V) == UNION {[S -> V] : S \in SUBSET Keys}
InnerMappings == PartialMaps(Scalars)
Mappings == PartialMaps(Scalars \cup InnerMappings)

\* a scalar is an int [val |-> n], a str [str |-> s] or a bool [bool |-> b]
IsMapping(t) == DOMAIN t \cap {"val", "str", "bool"} = {}

\* the objects yaml.safe_load builds for the mapping t, the outer dict at
\* address root and the dict under key k at address root.k
Child(root, k) == root \o "." \o k

Load(root, t) ==
    LET inner == {k \in DOMAIN t : IsMapping(t[k])}
    IN  [x \in {root} \cup {Child(root, k) : k \in inner} |->
            IF x = root
            THEN [k \in DOMAIN t |-> IF k \in inner THEN [ref |-> Child(root, k)]
                                     ELSE t[k]]
            ELSE t[CHOOSE k \in inner : x = Child(root, k)]]

\* the objects yaml.safe_load builds for a mapping t of any depth
RECURSIVE LoadTree(_, _)
LoadTree(root, t) ==
    LET inner == {k \in DOMAIN t : IsMapping(t[k])}
        sub == [k \in inner |-> LoadTree(Child(root, k), t[k])]
    IN  [x \in {root} \cup UNION {DOMAIN sub[k] : k \in inner} |->
            IF x = root
            THEN [k \in DOMAIN t |-> IF k \in inner THEN [ref |-> Child(root, k)]
                                     ELSE t[k]]
            ELSE sub[CHOOSE k \in inner : x \in DOMAIN sub[k]][x]]

\* two heaps over disjoint addresses
Join(h1, h2) ==
    [x \in DOMAIN h1 \cup DOMAIN h2 |-> IF x \in DOMAIN h1 THEN h1[x] ELSE h2[x]]

\* the mapping a value stands for in heap h
RECURSIVE Value(_, _)
Value(h, v) ==
    IF IsDict(v) THEN [k \in DOMAIN h[v.ref] |-> Value(h, h[v.ref][k])]
    ELSE v

\* d[k] = v on the dict at address d
Put(h, d, k, v) ==
    [h EXCEPT ![d] = [x \in DOMAIN @ \cup {k} |-> IF x = k THEN v ELSE @[x]]]

Returned(h, v) == [heap |-> h, ret |-> v]

\* ------------------------------------------------------------------------
\* Generate._jinja2_filter_merge
\* ------------------------------------------------------------------------
\* ShallowMerge that keeps the value of dict1 for a key of both
ShallowMergeKeepsBase(h, dict1, dict2) ==
    LET d1 == h[dict1.ref]
        d2 == h[dict2.ref]
        updated == [k \in DOMAIN d1 \cup DOMAIN d2 |->
                        IF k \in DOMAIN d1 THEN d1[k] ELSE d2[k]]
    IN  Returned([h EXCEPT ![dict1.ref] = updated], dict1)

\* dict1.update(dict2); return dict1
ShallowMerge(h, dict1, dict2) ==
    LET d1 == h[dict1.ref]
        d2 == h[dict2.ref]
        updated == [k \in DOMAIN d1 \cup DOMAIN d2 |->
                        IF k \in DOMAIN d2 THEN d2[k] ELSE d1[k]]
    IN  Returned([h EXCEPT ![dict1.ref] = updated], dict1)

RECURSIVE DeepMerge(_, _, _)
RECURSIVE MergeKeys(_, _, _, _)

\* the loop "for k in dict2" from the i-th key on, on the dicts at d1 and d2
MergeKeys(h, d1, d2, i) ==
    IF i > Len(KeyOrder) THEN h
    ELSE LET k == KeyOrder[i]
         IN  IF k \notin DOMAIN h[d2] THEN MergeKeys(h, d1, d2, i + 1)
             ELSE IF k \in DOMAIN h[d1]
             THEN LET r == DeepMerge(h, h[d1][k], h[d2][k])
                  IN  MergeKeys(Put(r.heap, d1, k, r.ret), d1, d2, i + 1)
             ELSE MergeKeys(Put(h, d1, k, h[d2][k]), d1, d2, i + 1)

\* DeepMerge that returns its second argument
DeepMergeReturnsDict2(h, dict1, dict2) ==
    IF ~IsDict(dict1) \/ ~IsDict(dict2) THEN Returned(h, dict2)
    ELSE Returned(MergeKeys(h, dict1.ref, dict2.ref, 1), dict2)

\* DeepMerge that does not descend into the dicts held by both
DeepMergeNoDescent(h, dict1, dict2) ==
    IF ~IsDict(dict1) \/ ~IsDict(dict2) THEN Returned(h, dict2)
    ELSE ShallowMerge(h, dict1, dict2)

\* the call with deep=True
DeepMerge(h, dict1, dict2) ==
    IF ~IsDict(dict1) \/ ~IsDict(dict2) THEN Returned(h, dict2)
    ELSE Returned(MergeKeys(h, dict1.ref, dict2.ref, 1), dict1)

_jinja2_filter_merge(h, dict1, dict2, deep) ==
    IF ~deep THEN ShallowMerge(h, dict1, dict2)
    ELSE DeepMerge(h, dict1, dict2)

\* ------------------------------------------------------------------------
\* Generate._get_params and Generate._get_values
\*
\* A file is [exists, ok, data]: whether the path exists, whether it can
\* be opened and parsed, and the mapping it parses to.  The cache fields
\* self._params and self._values hold None or a reference to a dict.
\* ------------------------------------------------------------------------
None == [none |-> TRUE]
LoadError == "LoadError"
TemplatingError == "TemplatingError"
WriteError == "WriteError"
\* "templating error: cannot read values file ..."
ValuesLoadError == "TemplatingError(LoadError)"

IsStr(v) == "str" \in DOMAIN v
IsBool(v) == "bool" \in DOMAIN v
\* str(v) of an int
Str(v) == [str |-> ToString(v.val)]

File(exists, ok, data) == [exists |-> exists, ok |-> ok, data |-> data]

\* a mapping that has key k iff opt is a one-element list
Part(k, opt) == IF opt = <<>> THEN <<>> ELSE k :> opt[1]
Optional(S) == {<<>>} \cup {<<x>> : x \in S}

\* parameters.yaml: labels?, chart?, and one more key the templates read,
\* called like the label "a"
LabelTrees ==
    {[str |-> "x"], <<>>, [a |-> [val |-> 1]], [a |-> [str |-> "x"]],
     [a |-> [val |-> 1], b |-> [str |-> "x"]]}
ChartTrees ==
    {<<>>, [values |-> [val |-> 1]], [values |-> <<>>],
     [values |-> [a |-> [val |-> 1]]], [values |-> [a |-> [a |-> [val |-> 1]]]]}
OtherTrees == {[str |-> "y"]}
ParamsTree(l, c, o) == Part("labels", l) @@ Part("chart", c) @@ Part("a", o)

\* <env>-<zone>.yaml: values?, deepMerge?
ValuesTrees ==
    {[val |-> 2], <<>>, [a |-> [val |-> 2]], [b |-> [val |-> 2]],
     [a |-> [b |-> [val |-> 2]]]}
DeepMergeTrees == {[str |-> "yes"], [bool |-> TRUE], [bool |-> FALSE]}
ValuesTree(v, d) == Part("values", v) @@ Part("deepMerge", d)

ParamsRef == [ref |-> "params"]
ValuesRef == [ref |-> "values"]

\* what a getter hands back: the heap and the cache field after the call,
\* the value returned, and the exception raised (NoError when none)
Got(h, cache, r, e) == [heap |-> h, cache |-> cache, ret |-> r, err |-> e]

\* d[k] = {} on the dict at address d, the new dict at address d.k
PutNewDict(h, d, k) ==
    Join(Put(h, d, k, [ref |-> Child(d, k)]), Child(d, k) :> <<>>)

\* if "chart" in params and ("values" not in chart or not a dict)
ChartDefault(h) ==
    LET p == h["params"]
    IN  IF /\ "chart" \in DOMAIN p
           /\ \/ "values" \notin DOMAIN h[p.chart.ref]
              \/ ~IsDict(h[p.chart.ref].values)
        THEN PutNewDict(h, "params.chart", "values")
        ELSE h

\* if "labels" not in params or not a dict
LabelsDefault(h) ==
    LET p == h["params"]
    IN  IF "labels" \notin DOMAIN p \/ ~IsDict(p.labels)
        THEN PutNewDict(h, "params", "labels")
        ELSE h

\* for k, v in params["labels"].items(), from the i-th key on:
\* if not isinstance(v, str): self._params[k] = str(v)
RECURSIVE ConvertLabels(_, _)
ConvertLabels(h, i) ==
    IF i > Len(KeyOrder) THEN h
    ELSE LET k == KeyOrder[i]
             labels == h[h["params"].labels.ref]
         IN  IF k \in DOMAIN labels /\ ~IsStr(labels[k])
             THEN ConvertLabels(Put(h, "params", k, Str(labels[k])), i + 1)
             ELSE ConvertLabels(h, i + 1)

_get_params(h, cache, file) ==
    IF cache # None THEN Got(h, cache, cache, NoError)
    ELSE IF ~file.exists \/ ~file.ok THEN Got(h, None, None, LoadError)
    ELSE LET loaded == Join(h, LoadTree("params", file.data))
         IN  Got(ConvertLabels(LabelsDefault(ChartDefault(loaded)), 1),
                 ParamsRef, ParamsRef, NoError)

\* the dict literal {"deepMerge": False, "values": {}}
DefaultValues == [deepMerge |-> [bool |-> FALSE], values |-> <<>>]
\* the address of the dict the n-th evaluation of the literal creates
DefaultAddr(n) == "default" \o ToString(n)

\* if "values" not in values or not a dict; if "deepMerge" not in values or
\* not a bool
ValuesDefault(h) ==
    LET h1 == IF "values" \notin DOMAIN h["values"] \/ ~IsDict(h["values"].values)
              THEN PutNewDict(h, "values", "values")
              ELSE h
    IN  IF "deepMerge" \notin DOMAIN h1["values"] \/ ~IsBool(h1["values"].deepMerge)
        THEN Put(h1, "values", "deepMerge", [bool |-> FALSE])
        ELSE h1

\* the part of _get_values after the check of the file's existence
ReadValues(h, cache, file) ==
    IF cache # None THEN Got(h, cache, cache, NoError)
    ELSE IF ~file.ok THEN Got(h, None, None, LoadError)
    ELSE Got(ValuesDefault(Join(h, LoadTree("values", file.data))),
             ValuesRef, ValuesRef, NoError)

\* _get_values that builds the default only while nothing is cached
_get_valuesDefaultOnce(h, cache, file, n) ==
    IF ~file.exists /\ cache = None
    THEN ReadValues(Join(h, LoadTree(DefaultAddr(n), DefaultValues)),
                    [ref |-> DefaultAddr(n)], file)
    ELSE ReadValues(h, cache, file)

\* n is the number of calls made before this one
_get_values(h, cache, file, n) ==
    IF ~file.exists
    THEN ReadValues(Join(h, LoadTree(DefaultAddr(n), DefaultValues)),
                    [ref |-> DefaultAddr(n)], file)
    ELSE ReadValues(h, cache, file)

\* ------------------------------------------------------------------------
\* Validate.placements
\* ------------------------------------------------------------------------
PlacementFileMissing == "PlacementFileMissing"
PlacementFileUnreadable == "PlacementFileUnreadable"
PlacementNameMismatch == "PlacementNameMismatch"

\* A placement {name?}: a missing name key is a false hasName.
NamedPlacement(i, hasName) ==
    [hasName |-> hasName, name |-> IF hasName THEN ZoneName(i) ELSE ""]

ValidatePromotion(names, has, cnt, named) ==
    [i \in DOMAIN names |->
        Step(names[i][1], names[i][2], has[i],
             [j \in 1..cnt[i] |-> NamedPlacement(j, named[Sum(cnt, i - 1) + j])])]

\* "%s-%s" % (p["env"], info["name"])
ExpectedName(e, n) == e \o "-" \o n

\* <release>/<env>/placement-rules/<name>.yaml, keyed <<env, name>>: absent,
\* unreadable, without metadata, with another metadata.name, as expected
PlacementFileKinds == {"missing", "unreadable", "bare", "other", "expected"}
PlacementFile(key, kind) ==
    CASE kind = "missing" -> File(FALSE, FALSE, <<>>)
      [] kind = "unreadable" -> File(TRUE, FALSE, <<>>)
      [] kind = "bare" -> File(TRUE, TRUE, <<>>)
      [] kind = "other" -> File(TRUE, TRUE, [metadata |-> [name |-> [str |-> key[2]]]])
      [] kind = "expected" ->
            File(TRUE, TRUE, [metadata |-> [name |-> [str |-> ExpectedName(key[1], key[2])]]])

\* the files the validation of promo looks for
PlacementKeys(promo) ==
    {<<promo[i].env, promo[i].placements[j].name>> :
        <<i, j>> \in {x \in (DOMAIN promo) \X (1..MaxValidatePlacements) :
                         /\ promo[x[1]].hasEnv
                         /\ x[2] <= Len(promo[x[1]].placements)
                         /\ promo[x[1]].placements[x[2]].hasName}}

\* the two loops from placement j of step i on
RECURSIVE PlacementsScan(_, _, _, _)

\* PlacementsScan that leaves the placements of a step at one without a name
PlacementsScanBreaks(promo, files, i, j) ==
    IF i > Len(promo) THEN NoError
    ELSE LET p == promo[i]
         IN  IF ~(p.hasEnv /\ p.hasPlacements) \/ j > Len(p.placements)
             THEN PlacementsScan(promo, files, i + 1, 1)
             ELSE LET info == p.placements[j]
                      f == files[<<p.env, info.name>>]
                  IN  IF ~info.hasName THEN PlacementsScan(promo, files, i + 1, 1)
                      ELSE IF ~f.exists THEN PlacementFileMissing
                      ELSE IF ~f.ok THEN PlacementFileUnreadable
                      ELSE IF /\ "metadata" \in DOMAIN f.data
                              /\ "name" \in DOMAIN f.data.metadata
                              /\ f.data.metadata.name
                                    = [str |-> ExpectedName(p.env, info.name)]
                      THEN PlacementsScan(promo, files, i, j + 1)
                      ELSE PlacementNameMismatch

PlacementsScan(promo, files, i, j) ==
    IF i > Len(promo) THEN NoError
    ELSE LET p == promo[i]
         IN  IF ~(p.hasEnv /\ p.hasPlacements) \/ j > Len(p.placements)
             THEN PlacementsScan(promo, files, i + 1, 1)
             ELSE LET info == p.placements[j]
                      f == files[<<p.env, info.name>>]
                  IN  IF ~info.hasName THEN PlacementsScan(promo, files, i, j + 1)
                      ELSE IF ~f.exists THEN PlacementFileMissing
                      ELSE IF ~f.ok THEN PlacementFileUnreadable
                      ELSE IF /\ "metadata" \in DOMAIN f.data
                              /\ "name" \in DOMAIN f.data.metadata
                              /\ f.data.metadata.name
                                    = [str |-> ExpectedName(p.env, info.name)]
                      THEN PlacementsScan(promo, files, i, j + 1)
                      ELSE PlacementNameMismatch

placements(promo, files) == Outcome(PlacementsScan(promo, files, 1, 1), <<>>)

\* ------------------------------------------------------------------------
\* main: the exit status of the process
\* ------------------------------------------------------------------------
\* a handler that lets a KeyError pass as a success
ExitStatusKeyErrorPasses(e) == IF e \notin {NoError, KeyError} THEN 1 ELSE 0

\* except Exception: log.error(...); sys.exit(1), else the end of main()
ExitStatus(e) == IF e # NoError THEN 1 ELSE 0

\* ------------------------------------------------------------------------
\* State
\* ------------------------------------------------------------------------
VARIABLES
    action,     \* args.action, the command main() dispatches on
    env,        \* args.env ("" for a command without it)
    promotion,  \* what _get_promotion returns
    pc,         \* "start" before the command has run, "done" after
    err,        \* the exception caught by main(), NoError when none
    out,        \* the lines printed on stdout
    heap,       \* the dict objects of the run
    before,     \* the heap as it was when the merge filter was last called
    ret,        \* what the last call of the merge filter returned
    deepArg,    \* the deep argument of the last call
    calls,      \* how many times the merge filter was called
    exit,       \* the exit status of the process, read once pc is "done"
    paramsFile, \* <meta>/<app>/parameters.yaml
    valuesFile, \* <meta>/<app>/values/<env>-<zone>.yaml
    placementFiles, \* the files under <release>/<env>/placement-rules
    _params,    \* self._params of the Generate object
    _values,    \* self._values of the Generate object
    paramsSeen, \* the mappings the calls of _get_params returned, in order
    valuesSeen, \* the mappings the calls of _get_values returned, in order
    attempted,  \* the steps of generate main() has called, in order
    written     \* the steps whose write_file has returned, in order

inputVars == <<action, env, promotion, paramsFile, valuesFile, placementFiles>>
mergeVars == <<heap, before, ret, deepArg, calls>>
cacheVars == <<_params, _values, paramsSeen, valuesSeen>>
runVars == <<attempted, written>>

vars == <<inputVars, mergeVars, cacheVars, runVars, pc, err, out, exit>>

NoFile == File(FALSE, FALSE, <<>>)

\* a command other than generate has no Generate object
NoGenerate ==
    /\ paramsFile = NoFile
    /\ valuesFile = NoFile
    /\ _params = None
    /\ _values = None
    /\ paramsSeen = <<>>
    /\ valuesSeen = <<>>
    /\ attempted = <<>>
    /\ written = <<>>

\* a run whose templates work on mappings of their own reads no file
NoFiles ==
    /\ NoGenerate
    /\ placementFiles = <<>>
    /\ exit = 0

\* the caller's two arguments: params (or a part of it) and the values
Base == [ref |-> "base"]
Overlay == [ref |-> "overlay"]

GetCommands == {"get_zones", "get_first_env", "get_next_env", "get_prev_env"}

\* no call of the merge filter yet
NoMerge ==
    /\ heap = <<>>
    /\ before = <<>>
    /\ ret = Base
    /\ deepArg = FALSE
    /\ calls = 0

InitGet ==
    /\ \/ /\ action \in GetCommands
          /\ env \in IF action = "get_first_env" THEN {""} ELSE Envs
          /\ \E n \in 0..MaxSteps : \E names \in [1..n -> StepNames] :
                 promotion = PlainPromotion(names)
       \/ /\ action = "get_zones"
          /\ env \in ZoneEnvs
          /\ \E n \in 0..MaxZoneSteps : \E cnt \in [1..n -> 0..MaxPlacements] :
                 /\ Sum(cnt, n) <= MaxPlacements
                 /\ \E has \in [1..n -> BOOLEAN] :
                        /\ \A i \in 1..n : cnt[i] > 0 => has[i]
                        /\ \E names \in [1..n -> ZoneStepNames],
                              prio \in [1..Sum(cnt, n) -> PriorityChoices] :
                               promotion = ZonePromotion(names, has, cnt, prio)
    /\ pc = "start"
    /\ err = NoError
    /\ out = <<>>
    /\ NoMerge
    /\ NoFiles

\* the end of main(): the command returned or raised
Finish(result) ==
    /\ pc' = "done"
    /\ err' = result.err
    /\ out' = result.out
    /\ exit' = ExitStatus(result.err)
    /\ UNCHANGED <<inputVars, mergeVars, cacheVars, runVars>>

GetZones == pc = "start" /\ action = "get_zones" /\ Finish(zones(promotion, env))

GetFirstEnv == pc = "start" /\ action = "get_first_env" /\ Finish(first_env(promotion))

GetNextEnv == pc = "start" /\ action = "get_next_env" /\ Finish(next_env(promotion, env))

GetPrevEnv == pc = "start" /\ action = "get_prev_env" /\ Finish(prev_env(promotion, env))

NextGet == GetZones \/ GetFirstEnv \/ GetNextEnv \/ GetPrevEnv

SpecGet == InitGet /\ [][NextGet]_vars

\* A run of generate whose templates apply the merge filter to two loaded
\* mappings, base | merge(overlay, deep), up to MaxMerges times.
InitMerge ==
    /\ action = "generate"
    /\ env = "A"
    /\ promotion = <<>>
    /\ pc = "start"
    /\ err = NoError
    /\ out = <<>>
    /\ \E b \in Mappings, o \in Mappings :
           heap = Join(Load("base", b), Load("overlay", o))
    /\ before = heap
    /\ ret = Base
    /\ deepArg = FALSE
    /\ calls = 0
    /\ NoFiles

Merge(deep) ==
    /\ action = "generate"
    /\ calls < MaxMerges
    /\ LET r == _jinja2_filter_merge(heap, Base, Overlay, deep)
       IN  /\ heap' = r.heap
           /\ ret' = r.ret
    /\ before' = heap
    /\ deepArg' = deep
    /\ calls' = calls + 1
    /\ UNCHANGED <<inputVars, cacheVars, runVars, pc, err, out, exit>>

MergeShallow == Merge(FALSE)

MergeDeep == Merge(TRUE)

NextMerge == MergeShallow \/ MergeDeep

SpecMerge == InitMerge /\ [][NextMerge]_vars

\* A run of generate whose templates merge two different mappings into the
\* same base, base | merge(overlay, deep) and base | merge(overlay2, deep).
Overlay2 == [ref |-> "overlay2"]
TwoMappings == {<<>>} \cup {[a |-> v] : v \in {[val |-> 1]} \cup InnerMappings}

InitMergeTwo ==
    /\ action = "generate"
    /\ env = "A"
    /\ promotion = <<>>
    /\ pc = "start"
    /\ err = NoError
    /\ out = <<>>
    /\ \E b \in TwoMappings, o1 \in TwoMappings, o2 \in TwoMappings :
           heap = Join(Join(Load("base", b), Load("overlay", o1)), Load("overlay2", o2))
    /\ before = heap
    /\ ret = Base
    /\ deepArg = FALSE
    /\ calls = 0
    /\ NoFiles

MergeWith(overlay) ==
    /\ overlay.ref \in DOMAIN heap
    /\ calls < MaxMerges
    /\ \E deep \in BOOLEAN :
           /\ LET r == _jinja2_filter_merge(heap, Base, overlay, deep)
              IN  /\ heap' = r.heap
                  /\ ret' = r.ret
           /\ deepArg' = deep
    /\ before' = heap
    /\ calls' = calls + 1
    /\ UNCHANGED <<inputVars, cacheVars, runVars, pc, err, out, exit>>

MergeFirst == MergeWith(Overlay)

MergeSecond == MergeWith(Overlay2)

NextMergeTwo == MergeFirst \/ MergeSecond

SpecMergeTwo == InitMergeTwo /\ [][NextMergeTwo]_vars

\* ------------------------------------------------------------------------
\* The generate command: application() and then subscription(), each of
\* them _get_params, get_template, _get_values, the render, whose template
\* may call the merge filter, and the write of the file.
\* ------------------------------------------------------------------------
ParamsFiles ==
    {NoFile} \cup {File(TRUE, TRUE, ParamsTree(l, c, o)) :
                      l \in Optional(LabelTrees), c \in Optional(ChartTrees),
                      o \in Optional(OtherTrees)}
ValuesFiles ==
    {NoFile, File(TRUE, FALSE, <<>>)}
        \cup {File(TRUE, TRUE, ValuesTree(v, d)) :
                 v \in Optional(ValuesTrees), d \in Optional(DeepMergeTrees)}

InitGenerate ==
    /\ action = "generate"
    /\ env = "A"
    /\ promotion = <<>>
    /\ pc = "start"
    /\ err = NoError
    /\ out = <<>>
    /\ NoMerge
    /\ paramsFile \in ParamsFiles
    /\ valuesFile \in ValuesFiles
    /\ placementFiles = <<>>
    /\ _params = None
    /\ _values = None
    /\ paramsSeen = <<>>
    /\ valuesSeen = <<>>
    /\ attempted = <<>>
    /\ written = <<>>
    /\ exit = 0

\* a handler of application() that logs the error and lets main() go on
FailGoesOn(e) ==
    /\ pc' = IF pc \in {"start", "application"} THEN "written" ELSE "done"
    /\ err' = e
    /\ exit' = ExitStatus(e)

\* an exception reaches main(): log.error and sys.exit(1)
Fail(e) ==
    /\ pc' = "done"
    /\ err' = e
    /\ exit' = ExitStatus(e)

\* application() or subscription() up to the call of template.render:
\* params = self._get_params(), get_template, values=self._get_values()
Render(step, from) ==
    /\ action = "generate"
    /\ pc = from
    /\ LET p == _get_params(heap, _params, paramsFile)
       IN  IF p.err # NoError
           THEN /\ Fail(p.err)
                /\ UNCHANGED <<heap, cacheVars>>
           ELSE /\ _params' = p.cache
                /\ paramsSeen' = Append(paramsSeen, Value(p.heap, p.ret))
                /\ \E found \in BOOLEAN :
                       LET v == _get_values(p.heap, _values, valuesFile, Len(valuesSeen))
                       IN  IF ~found
                           THEN /\ Fail(TemplatingError)
                                /\ heap' = p.heap
                                /\ UNCHANGED <<_values, valuesSeen>>
                           ELSE IF v.err # NoError
                           THEN /\ Fail(ValuesLoadError)
                                /\ heap' = v.heap
                                /\ _values' = v.cache
                                /\ UNCHANGED valuesSeen
                           ELSE /\ pc' = step
                                /\ heap' = v.heap
                                /\ _values' = v.cache
                                /\ valuesSeen' = Append(valuesSeen, Value(v.heap, v.ret))
                                /\ UNCHANGED <<err, exit>>
    /\ attempted' = Append(attempted, step)
    /\ UNCHANGED <<inputVars, out, before, ret, deepArg, calls, written>>

ApplicationRender == Render("application", "start")

SubscriptionRender == Render("subscription", "written")

\* what a template can hand to the filter: params, params.chart.values and
\* values.values, the latter two against each other or values.values as
\* the overlay of params
FilterArgs ==
    LET p == heap[_params.ref]
        vv == heap[_values.ref].values
        cv == IF "chart" \in DOMAIN p THEN {heap[p.chart.ref].values} ELSE {}
    IN  {<<c, vv>> : c \in cv} \cup {<<vv, c>> : c \in cv} \cup {<<_params, vv>>}

\* the template being rendered evaluates "dict1 | merge(dict2, deep)"
Filter ==
    /\ pc \in {"application", "subscription"}
    /\ calls < MaxMerges
    /\ \E args \in FilterArgs, deep \in BOOLEAN :
           /\ LET r == _jinja2_filter_merge(heap, args[1], args[2], deep)
              IN  /\ heap' = r.heap
                  /\ ret' = r.ret
           /\ deepArg' = deep
    /\ before' = heap
    /\ calls' = calls + 1
    /\ UNCHANGED <<inputVars, cacheVars, runVars, pc, err, out, exit>>

\* template.render raises
RenderError ==
    /\ pc \in {"application", "subscription"}
    /\ Fail(TemplatingError)
    /\ UNCHANGED <<inputVars, mergeVars, cacheVars, runVars, out>>

\* self.tools.write_file of the rendered text, which may raise
Write(step, to) ==
    /\ pc = step
    /\ \E ok \in BOOLEAN :
           IF ok THEN /\ pc' = to
                      /\ exit' = ExitStatus(NoError)
                      /\ written' = Append(written, step)
                      /\ UNCHANGED err
           ELSE /\ Fail(WriteError)
                /\ UNCHANGED written
    /\ UNCHANGED <<inputVars, mergeVars, cacheVars, attempted, out>>

ApplicationWrite == Write("application", "written")

SubscriptionWrite == Write("subscription", "done")

NextGenerate ==
    \/ ApplicationRender
    \/ Filter
    \/ RenderError
    \/ ApplicationWrite
    \/ SubscriptionRender
    \/ SubscriptionWrite

SpecGenerate == InitGenerate /\ [][NextGenerate]_vars

\* ------------------------------------------------------------------------
\* The validate placements command
\* ------------------------------------------------------------------------
InitValidate ==
    /\ action = "validate_placements"
    /\ env = ""
    /\ \E n \in 0..MaxValidateSteps : \E cnt \in [1..n -> 0..MaxValidatePlacements] :
           /\ Sum(cnt, n) <= MaxValidatePlacements
           /\ \E has \in [1..n -> BOOLEAN] :
                  /\ \A i \in 1..n : cnt[i] > 0 => has[i]
                  /\ \E names \in [1..n -> ZoneStepNames],
                        named \in [1..Sum(cnt, n) -> BOOLEAN] :
                         LET promo == ValidatePromotion(names, has, cnt, named)
                         IN  /\ promotion = promo
                             /\ \E kind \in [PlacementKeys(promo) -> PlacementFileKinds] :
                                    placementFiles =
                                        [key \in PlacementKeys(promo) |->
                                            PlacementFile(key, kind[key])]
    /\ pc = "start"
    /\ err = NoError
    /\ out = <<>>
    /\ NoMerge
    /\ NoGenerate
    /\ exit = 0

ValidatePlacements ==
    pc = "start" /\ action = "validate_placements"
        /\ Finish(placements(promotion, placementFiles))

\* ------------------------------------------------------------------------
\* main(): any of the six commands
\* ------------------------------------------------------------------------
Init == InitGet \/ InitValidate \/ InitGenerate

Next == NextGet \/ ValidatePlacements \/ NextGenerate

Spec == Init /\ [][Next]_vars

\* ------------------------------------------------------------------------
\* Vocabulary of the properties
\* ------------------------------------------------------------------------
Done(cmd) == pc = "done" /\ action = cmd

\* the steps whose env equals e, and the first of them
NamedSteps(e) == {i \in 1..Len(promotion) : promotion[i].hasEnv /\ promotion[i].env = e}
FirstNamed(e) == CHOOSE i \in NamedSteps(e) : \A j \in NamedSteps(e) : i <= j
AllNamed == \A i \in 1..Len(promotion) : promotion[i].hasEnv

\* the steps named e that declare at least one placement, and the first of them
ZoneSteps(e) == {i \in NamedSteps(e) : promotion[i].hasPlacements
                                       /\ Len(promotion[i].placements) > 0}
FirstZoneStep(e) == CHOOSE i \in ZoneSteps(e) : \A j \in ZoneSteps(e) : i <= j

\* the priority a step gives to the placement called name
PriorityOf(step, name) ==
    LET info == CHOOSE x \in {step.placements[k] : k \in 1..Len(step.placements)} :
                    x.name = name
    IN  IF info.hasPriority THEN info.priority ELSE 0

\* ------------------------------------------------------------------------
\* C1: for an environment that has a step with at least one placement,
\* get zones succeeds and prints the priority groups in ascending order of
\* their priority, whatever order the priorities appear in the placements.
\* ------------------------------------------------------------------------
C1_ZonesAscending ==
    (Done("get_zones") /\ ZoneSteps(env) # {}) =>
        /\ err = NoError
        /\ \A i, j \in 1..Len(out) :
               i < j => PriorityOf(promotion[FirstZoneStep(env)], out[i][1])
                        < PriorityOf(promotion[FirstZoneStep(env)], out[j][1])

\* ------------------------------------------------------------------------
\* C2: get zones tells two outcomes apart: the step named env has zero
\* placements -> success with an empty result; no step is named env ->
\* failure with EnvironmentNotFound.
\* ------------------------------------------------------------------------
C2_ZonesEmptyVsNotFound ==
    Done("get_zones") =>
        /\ (NamedSteps(env) # {} /\ Len(promotion[FirstNamed(env)].placements) = 0)
               => (err = NoError /\ out = <<>>)
        /\ NamedSteps(env) = {} => err = EnvironmentNotFound

\* ------------------------------------------------------------------------
\* C3: when every step carries an env name and current names a step that is
\* not the last one, get next-env succeeds and prints exactly one name, that
\* of the step right after the first step named current.
\* ------------------------------------------------------------------------
C3_NextEnvFollows ==
    (Done("get_next_env") /\ AllNamed
        /\ \E i \in NamedSteps(env) : i < Len(promotion)) =>
        /\ err = NoError
        /\ out = << <<promotion[FirstNamed(env) + 1].env>> >>

C3_Witness ==
    /\ Done("get_next_env") /\ AllNamed
    /\ Len(promotion) = 3 /\ NamedSteps(env) = {2}
    /\ promotion[3].env # promotion[1].env
    /\ out = << <<promotion[3].env>> >>

\* ------------------------------------------------------------------------
\* C4 as stated: current names the last step -> success without output;
\* current names no step -> EnvironmentNotFound; a failure prints no name.
\* ------------------------------------------------------------------------
C4_NextEnvLastStep ==
    Done("get_next_env") =>
        /\ (Len(promotion) > 0 /\ Len(promotion) \in NamedSteps(env))
               => (err = NoError /\ out = <<>>)
        /\ NamedSteps(env) = {} => err = EnvironmentNotFound
        /\ err # NoError => out = <<>>

\* C4 as amended: the first step named current is the last step -> success
\* without output; current names no step -> EnvironmentNotFound; a failure
\* prints no name and a success raises nothing.
C4_NextEnvFirstMatchLast ==
    Done("get_next_env") =>
        /\ (NamedSteps(env) # {} /\ FirstNamed(env) = Len(promotion))
               => (err = NoError /\ out = <<>>)
        /\ NamedSteps(env) = {} => (err = EnvironmentNotFound /\ out = <<>>)
        /\ err # NoError => out = <<>>

C4_Witness ==
    /\ Done("get_next_env")
    /\ Len(promotion) = 3 /\ NamedSteps(env) = {3}
    /\ err = NoError /\ out = <<>>

\* ------------------------------------------------------------------------
\* C5: when every step carries an env name, get prev-env prints the name of
\* the step right before the first step named current, prints nothing and
\* succeeds when that step is the first one, and fails with
\* EnvironmentNotFound when no step is named current.
\* ------------------------------------------------------------------------
C5_PrevEnvPrecedes ==
    (Done("get_prev_env") /\ AllNamed) =>
        IF NamedSteps(env) = {}
        THEN err = EnvironmentNotFound /\ out = <<>>
        ELSE /\ err = NoError
             /\ out = IF FirstNamed(env) = 1 THEN <<>>
                      ELSE << <<promotion[FirstNamed(env) - 1].env>> >>

C5_Witness ==
    /\ Done("get_prev_env") /\ AllNamed
    /\ Len(promotion) = 3 /\ NamedSteps(env) = {3}
    /\ promotion[1].env # promotion[2].env
    /\ out = << <<promotion[2].env>> >>

\* ------------------------------------------------------------------------
\* C6: get first-env prints the env of step 0; it fails with EmptyPromotion
\* on an empty list and with MissingEnvironmentName when step 0 has no env,
\* and prints nothing in both failures.
\* ------------------------------------------------------------------------
C6_FirstEnv ==
    Done("get_first_env") =>
        IF Len(promotion) = 0 THEN err = EmptyPromotion /\ out = <<>>
        ELSE IF ~promotion[1].hasEnv THEN err = MissingEnvironmentName /\ out = <<>>
        ELSE err = NoError /\ out = << <<promotion[1].env>> >>

C6_Witness ==
    /\ Done("get_first_env")
    /\ Len(promotion) = 2 /\ ~promotion[1].hasEnv /\ promotion[2].hasEnv
    /\ err = MissingEnvironmentName /\ out = <<>>

\* ------------------------------------------------------------------------
\* C7 as stated: on a promotion list without steps every query (first_env,
\* next_env, prev_env, zones) fails with EmptyPromotion.
\* ------------------------------------------------------------------------
C7_EmptyAlwaysEmptyPromotion ==
    (pc = "done" /\ Len(promotion) = 0) => err = EmptyPromotion

\* C7 as amended: on a promotion list without steps every query fails and
\* prints nothing; first_env fails with EmptyPromotion, while next_env,
\* prev_env and zones fail with EnvironmentNotFound.
C7_EmptyFails ==
    (pc = "done" /\ Len(promotion) = 0) =>
        /\ out = <<>>
        /\ err = IF action = "get_first_env" THEN EmptyPromotion
                 ELSE EnvironmentNotFound

C7_Witness ==
    /\ Done("get_zones") /\ Len(promotion) = 0
    /\ err = EnvironmentNotFound

\* ------------------------------------------------------------------------
\* The merge filter: the mappings its arguments stood for when it was
\* called, and the mapping it returned.
\* ------------------------------------------------------------------------
BaseBefore == Value(before, Base)
OverlayBefore == Value(before, Overlay)
Result == Value(heap, ret)

\* r is the deep merge, key by key, of the mappings b and o
RECURSIVE DeepMerged(_, _, _)
DeepMerged(r, b, o) ==
    /\ IsMapping(r)
    /\ DOMAIN r = DOMAIN b \cup DOMAIN o
    /\ \A k \in DOMAIN r :
           IF k \in DOMAIN o
           THEN IF k \in DOMAIN b /\ IsMapping(b[k]) /\ IsMapping(o[k])
                THEN DeepMerged(r[k], b[k], o[k])
                ELSE r[k] = o[k]
           ELSE r[k] = b[k]

\* ------------------------------------------------------------------------
\* C8: a deep merge of base and overlay returns, for every key, the deep
\* merge of the two values when both hold a mapping, the overlay value
\* when the key is in overlay and one of the two values is no mapping or
\* the key is not in base, and the base value for a key of base alone.
\* ------------------------------------------------------------------------
C8_DeepMerge ==
    (calls > 0 /\ deepArg) => DeepMerged(Result, BaseBefore, OverlayBefore)

C8_Witness ==
    /\ calls > 0 /\ deepArg
    /\ DOMAIN BaseBefore = Keys /\ DOMAIN OverlayBefore = Keys
    /\ IsMapping(BaseBefore.a) /\ IsMapping(OverlayBefore.a)
    /\ DOMAIN BaseBefore.a = {"a"} /\ DOMAIN OverlayBefore.a = {"b"}
    /\ IsMapping(BaseBefore.b) /\ DOMAIN BaseBefore.b # {}
    /\ ~IsMapping(OverlayBefore.b)
    /\ DOMAIN Result.a = Keys
    /\ Result.b = OverlayBefore.b

\* ------------------------------------------------------------------------
\* C9: a shallow merge returns the one-level union of the keys of base and
\* overlay: an overlay key holds the overlay value, nested mappings being
\* replaced whole, and a key of base alone keeps the base value.
\* ------------------------------------------------------------------------
C9_ShallowMerge ==
    (calls > 0 /\ ~deepArg) =>
        /\ IsMapping(Result)
        /\ DOMAIN Result = DOMAIN BaseBefore \cup DOMAIN OverlayBefore
        /\ \A k \in DOMAIN OverlayBefore : Result[k] = OverlayBefore[k]
        /\ \A k \in DOMAIN BaseBefore \ DOMAIN OverlayBefore : Result[k] = BaseBefore[k]

C9_Witness ==
    /\ calls > 0 /\ ~deepArg
    /\ DOMAIN BaseBefore = Keys /\ DOMAIN OverlayBefore = {"a"}
    /\ IsMapping(BaseBefore.a) /\ IsMapping(OverlayBefore.a)
    /\ DOMAIN BaseBefore.a = {"a"} /\ DOMAIN OverlayBefore.a = {"b"}
    /\ Result.a = OverlayBefore.a
    /\ Result.b = BaseBefore.b

\* ------------------------------------------------------------------------
\* C10: the merge leaves its base argument as it was: after a call, in
\* either mode, the caller's base mapping equals what it was before it.
\* ------------------------------------------------------------------------
C10_BaseUnchanged ==
    calls > 0 => Value(heap, Base) = BaseBefore

\* ------------------------------------------------------------------------
\* C11: merging an empty overlay into X returns a mapping equal to X, in
\* both modes.
\* ------------------------------------------------------------------------
C11_MergeEmptyOverlay ==
    (calls > 0 /\ DOMAIN OverlayBefore = {}) => Result = BaseBefore

C11_Witness ==
    /\ calls > 0 /\ deepArg
    /\ DOMAIN OverlayBefore = {}
    /\ DOMAIN BaseBefore = Keys
    /\ IsMapping(BaseBefore.a) /\ DOMAIN BaseBefore.a = Keys
    /\ Result = BaseBefore

\* ------------------------------------------------------------------------
\* C12: the groups get zones prints partition the placements of the step it
\* processes: every placement name is printed exactly once, in the group of
\* its priority (0 when it has none), and a group keeps the order of the
\* placements list.
\* ------------------------------------------------------------------------
\* the names of the placements pl[i..] whose priority is q, in list order
RECURSIVE NamesWithPriority(_, _, _)
NamesWithPriority(pl, q, i) ==
    IF i > Len(pl) THEN <<>>
    ELSE IF (IF pl[i].hasPriority THEN pl[i].priority ELSE 0) = q
    THEN <<pl[i].name>> \o NamesWithPriority(pl, q, i + 1)
    ELSE NamesWithPriority(pl, q, i + 1)

C12_ZonesPartition ==
    (Done("get_zones") /\ ZoneSteps(env) # {}) =>
        LET step == promotion[FirstZoneStep(env)]
            pl == step.placements
        IN  /\ err = NoError
            /\ \A k \in 1..Len(pl) :
                   Cardinality({x \in UNION {{<<i, j>> : j \in 1..Len(out[i])} :
                                             i \in 1..Len(out)} :
                                    out[x[1]][x[2]] = pl[k].name}) = 1
            /\ \A i \in 1..Len(out) :
                   /\ out[i] # <<>>
                   /\ out[i] = NamesWithPriority(pl, PriorityOf(step, out[i][1]), 1)

C12_Witness ==
    /\ Done("get_zones") /\ ZoneSteps(env) # {}
    /\ LET pl == promotion[FirstZoneStep(env)].placements
       IN  /\ Len(pl) = 3
           /\ ~pl[1].hasPriority
           /\ pl[2].hasPriority /\ pl[2].priority = 1
           /\ pl[3].hasPriority /\ pl[3].priority = 0
    /\ out = << <<"z1", "z3">>, <<"z2">> >>

\* ------------------------------------------------------------------------
\* C13: when several steps share the queried name, get zones honours the
\* first of them that declares placements, also when it declares an empty
\* list: no placement of a later step of that name is printed.
\* ------------------------------------------------------------------------
DeclaringSteps(e) == {i \in NamedSteps(e) : promotion[i].hasPlacements}
FirstDeclaring(e) == CHOOSE i \in DeclaringSteps(e) : \A j \in DeclaringSteps(e) : i <= j

C13_ZonesFirstOnly ==
    (Done("get_zones") /\ Cardinality(NamedSteps(env)) >= 2
        /\ DeclaringSteps(env) # {}) =>
        LET pl == promotion[FirstDeclaring(env)].placements
        IN  \A i \in 1..Len(out) : \A j \in 1..Len(out[i]) :
                \E k \in 1..Len(pl) : pl[k].name = out[i][j]

\* ------------------------------------------------------------------------
\* C14: when several steps are named current, get next-env prints the name
\* of the step right after the first of them and get prev-env the name of
\* the step right before the first of them.
\* ------------------------------------------------------------------------
C14_DuplicatesFirstOccurrence ==
    /\ (Done("get_next_env") /\ Cardinality(NamedSteps(env)) >= 2
           /\ promotion[FirstNamed(env) + 1].hasEnv) =>
           (err = NoError /\ out = << <<promotion[FirstNamed(env) + 1].env>> >>)
    /\ (Done("get_prev_env") /\ Cardinality(NamedSteps(env)) >= 2
           /\ FirstNamed(env) > 1 /\ promotion[FirstNamed(env) - 1].hasEnv) =>
           (err = NoError /\ out = << <<promotion[FirstNamed(env) - 1].env>> >>)

\* ------------------------------------------------------------------------
\* C15: a step without the env field is skipped: for an environment that is
\* present, get next-env, get prev-env and get zones end in a documented
\* outcome (success or EnvironmentNotFound), never in another error.
\* ------------------------------------------------------------------------
C15_MissingEnvSkipped ==
    (pc = "done" /\ action \in {"get_next_env", "get_prev_env", "get_zones"}
        /\ NamedSteps(env) # {}) =>
        err \in {NoError, EnvironmentNotFound}

\* C20: the merge filter never changes what it is given as overlay, also
\* across calls: after merge(base, o1, deep) and then merge(base, o2, deep)
\* the mapping o1 is what it was, and so is o2.
C20_OverlaysUnchanged ==
    [][/\ Value(heap', Overlay) = Value(heap, Overlay)
       /\ Value(heap', Overlay2) = Value(heap, Overlay2)]_vars

\* C16: when the values file does not exist, _get_values raises nothing and
\* returns exactly {deepMerge: false, values: {}}, on the first call and on
\* every later call of the run.
C16_MissingValuesDefault ==
    (action = "generate" /\ ~valuesFile.exists) =>
        /\ err # ValuesLoadError
        /\ \A i \in DOMAIN valuesSeen : valuesSeen[i] = DefaultValues

\* a second call made after the template of the first render has merged the
\* chart values into the mapping the first call returned
C16_Witness ==
    /\ action = "generate" /\ ~valuesFile.exists
    /\ Len(valuesSeen) = 2
    /\ Value(heap, [ref |-> DefaultAddr(0)]) # DefaultValues
    /\ valuesSeen[2] = DefaultValues

\* C17: after _get_params has loaded the parameters, every value of the
\* labels mapping is a string, and no top-level key other than labels and
\* chart differs from what the file held.
C17_LabelsAreStrings ==
    paramsSeen # <<>> =>
        LET p == paramsSeen[1]
            f == paramsFile.data
        IN  /\ \A k \in DOMAIN p.labels : IsStr(p.labels[k])
            /\ \A k \in (DOMAIN p \cup DOMAIN f) \ {"labels", "chart"} :
                   k \in DOMAIN p /\ k \in DOMAIN f /\ p[k] = f[k]

\* C18: every call of _get_params returns a mapping equal to the one the
\* first load returned, also after a template has called the merge filter
\* with params or a part of params as the base.
C18_LoadOnceUseMany ==
    \A i \in DOMAIN paramsSeen : paramsSeen[i] = paramsSeen[1]

\* C19: a command ends with a non-zero exit status when its operation ended
\* in a failure and with status zero otherwise; a next-env query on the last
\* step and a prev-env query on the first step end with status zero, and
\* generate ends with status zero only after both renders.
C19_ExitStatus ==
    /\ pc = "done" => (exit = 0 <=> err = NoError)
    /\ (Done("get_next_env") /\ NamedSteps(env) # {}
            /\ FirstNamed(env) = Len(promotion)) => exit = 0
    /\ (Done("get_prev_env") /\ NamedSteps(env) # {} /\ FirstNamed(env) = 1) => exit = 0
    /\ (Done("generate") /\ exit = 0) => Len(paramsSeen) = 2 /\ Len(valuesSeen) = 2
    /\ (Done("validate_placements") /\ exit = 0) =>
            \A key \in DOMAIN placementFiles : placementFiles[key].exists

\* a next-env query on the last of two steps: nothing printed, status zero
C19_Witness ==
    /\ Done("get_next_env")
    /\ Len(promotion) = 2
    /\ NamedSteps(env) = {2}
    /\ out = <<>>
    /\ err = NoError
    /\ exit = 0

\* the placements validate placements has to check, as <<step, index>>: those
\* with a name in a step that has both env and placements
Checked ==
    {x \in (DOMAIN promotion) \X (1..MaxValidatePlacements) :
        /\ promotion[x[1]].hasEnv /\ promotion[x[1]].hasPlacements
        /\ x[2] <= Len(promotion[x[1]].placements)
        /\ promotion[x[1]].placements[x[2]].hasName}
FileOf(x) == placementFiles[<<promotion[x[1]].env, promotion[x[1]].placements[x[2]].name>>]
\* the file of x exists and its metadata.name is <env>-<name>
AsExpected(x) ==
    /\ FileOf(x).exists /\ FileOf(x).ok
    /\ FileOf(x).data = [metadata |-> [name |->
            [str |-> ExpectedName(promotion[x[1]].env,
                                  promotion[x[1]].placements[x[2]].name)]]]
Offending == {x \in Checked : ~AsExpected(x)}
Earlier(x, y) == x[1] < y[1] \/ (x[1] = y[1] /\ x[2] <= y[2])
FirstOffending == CHOOSE x \in Offending : \A y \in Offending : Earlier(x, y)
\* the PlacementValidationError the file of x gives rise to
ValidationErrorOf(x) ==
    IF ~FileOf(x).exists THEN PlacementFileMissing
    ELSE IF ~FileOf(x).ok THEN PlacementFileUnreadable
    ELSE PlacementNameMismatch

\* C21: validate placements succeeds exactly when the file of every named
\* placement of every step with env and placements exists and carries the
\* metadata.name <env>-<name>; otherwise it fails with the validation error
\* of the first offending placement in sequence order; a placement without
\* a name is skipped and makes nothing fail.
C21_ValidatePlacements ==
    Done("validate_placements") =>
        /\ err = NoError <=> Offending = {}
        /\ Offending # {} => err = ValidationErrorOf(FirstOffending)

\* a placement without a name, skipped, before one whose file is missing
C21_Witness ==
    /\ Done("validate_placements")
    /\ Len(promotion) = 1
    /\ Len(promotion[1].placements) = 2
    /\ ~promotion[1].placements[1].hasName
    /\ Offending = {<<1, 2>>}
    /\ err = PlacementFileMissing

StepsInOrder == {<<>>, <<"application">>, <<"application", "subscription">>}

\* C22: generate runs application() before subscription() and stops at the
\* first failure: subscription() is called only after the application file
\* was written, a subscription file is written only after the application
\* file, and a run that ends without the application file has failed with a
\* non-zero exit status and never called subscription().
C22_ApplicationFirstFailFast ==
    action = "generate" =>
        /\ attempted \in StepsInOrder
        /\ written \in StepsInOrder
        /\ Len(written) <= Len(attempted)
        /\ Len(attempted) = 2 => Len(written) >= 1
        /\ (pc = "done" /\ written = <<>>) =>
               /\ err # NoError
               /\ exit # 0
               /\ attempted = <<"application">>

\* the write of the application file failed after a render that called the
\* merge filter: the process has ended and subscription() was never called
C22_Witness ==
    /\ Done("generate")
    /\ err = WriteError
    /\ calls > 0
    /\ attempted = <<"application">>
    /\ written = <<>>
    /\ exit = 1

====
